---------------------------- MODULE Spec2Model ----------------------------
(***************************************************************************)
(* A model of aiorest_framework: the serializer/field engine               *)
(* (serializers.py, fields.py, validators.py) and the paginator            *)
(* (pagination.py).                                                        *)
(*                                                                         *)
(* Six specifications share the module:                                    *)
(*   SpecSerializer - two instances, A and B, of one Serializer class      *)
(*                    whose declared fields live on the class;             *)
(*   SpecPaginator  - one object list and the Paginator built over it;     *)
(*   SpecStrategy   - one object list and PageNumberPagination over it;    *)
(*   SpecSchema     - a schema whose Meta.fields varies, its               *)
(*                    run_validation and to_representation called          *)
(*                    directly, and a ListSerializer over it;              *)
(*   SpecField      - the declared fields, a BooleanField and a            *)
(*                    ChoiceField called directly;                         *)
(*   SpecPages      - a fresh Paginator walked page by page.               *)
(***************************************************************************)
EXTENDS Integers, Sequences, FiniteSets, TLC

(***************************************************************************)
(* Python values.  A value is a record of one shape so that any two values *)
(* can be compared: t is the type tag, n the number of an int (or twice    *)
(* the number of a float), s the characters of a str.  Characters are      *)
(* small integers: 0..9 are the digits '0'..'9', LetterA is 'a'.  A bool   *)
(* keeps its number in n, a list its length.                               *)
(***************************************************************************)
Letter(i) == 9 + i

LetterA == Letter(1)

\* the capital of the i-th letter
Upper(i) == 35 + i

NoneV == [t |-> "none", n |-> 0, s |-> <<>>]

IntV(k) == [t |-> "int", n |-> k, s |-> <<>>]

StrV(chars) == [t |-> "str", n |-> 0, s |-> chars]

\* a float worth twice2 / 2
FloatV(twice2) == [t |-> "float", n |-> twice2, s |-> <<>>]

BoolV(b) == [t |-> "bool", n |-> IF b THEN 1 ELSE 0, s |-> <<>>]

\* a list of len items
ListV(len) == [t |-> "list", n |-> len, s |-> <<>>]

\* bool(v)
Truthy(v) ==
    CASE v.t = "none" -> FALSE
      [] v.t = "int" -> v.n # 0
      [] v.t = "float" -> v.n # 0
      [] v.t = "str" -> Len(v.s) > 0
      [] v.t = "bool" -> v.n # 0
      [] v.t = "list" -> v.n # 0

\* hash(v) raises TypeError
Unhashable(v) == v.t = "list"

IsNumber(v) == v.t \in {"int", "float", "bool"}

\* a == b: numbers (bools among them) by their worth, the others by type and
\* content
PyEq(a, b) ==
    IF IsNumber(a) /\ IsNumber(b)
    THEN (IF a.t = "float" THEN a.n ELSE 2 * a.n) = (IF b.t = "float" THEN b.n ELSE 2 * b.n)
    ELSE a = b

\* `data in values` for a set: [exc, found]
InSet(data, values) ==
    IF Unhashable(data) THEN [exc |-> "TypeError", found |-> FALSE]
    ELSE [exc |-> "none", found |-> \E v \in values : PyEq(data, v)]

IsDigits(chars) == Len(chars) > 0 /\ \A i \in 1..Len(chars) : chars[i] \in 0..9

RECURSIVE DecimalValue(_)
DecimalValue(chars) ==
    IF chars = <<>> THEN 0
    ELSE 10 * DecimalValue(SubSeq(chars, 1, Len(chars) - 1)) + chars[Len(chars)]

RECURSIVE Digits(_)
Digits(k) == IF k < 10 THEN <<k>> ELSE Append(Digits(k \div 10), k % 10)

\* int(v): [ok |-> FALSE] stands for the TypeError / ValueError int() raises
IntCoerce(v) ==
    CASE v.t = "int" -> [ok |-> TRUE, n |-> v.n]
      [] v.t = "float" -> [ok |-> TRUE,
                           n |-> IF v.n >= 0 THEN v.n \div 2 ELSE -((-v.n) \div 2)]
      [] v.t = "str" -> IF IsDigits(v.s) THEN [ok |-> TRUE, n |-> DecimalValue(v.s)]
                        ELSE [ok |-> FALSE, n |-> 0]
      [] v.t = "none" -> [ok |-> FALSE, n |-> 0]

\* str(v) of a str, of an int that is not negative, of None
StrOf(v) ==
    CASE v.t = "str" -> v
      [] v.t = "int" -> StrV(Digits(v.n))
      [] v.t = "none" -> StrV(<<Upper(14), Letter(15), Letter(14), Letter(5)>>)

(***************************************************************************)
(* Python dicts are functions from a set of keys; None or a dict is a      *)
(* record [isNone, d].                                                     *)
(***************************************************************************)
EmptyDict == [k \in {} |-> NoneV]

DictGet(d, key) == IF key \in DOMAIN d THEN d[key] ELSE NoneV

DictSet(d, key, v) == [k \in DOMAIN d \cup {key} |-> IF k = key THEN v ELSE d[k]]

\* d.update(other)
DictUpdate(d, other) ==
    [k \in DOMAIN d \cup DOMAIN other |-> IF k \in DOMAIN other THEN other[k] ELSE d[k]]

NoneObj == [isNone |-> TRUE, d |-> EmptyDict]

Obj(d) == [isNone |-> FALSE, d |-> d]

(***************************************************************************)
(* The Serializer class of the model:                                      *)
(*     class Base(Serializer):                                             *)
(*         id = IntegerField()                                             *)
(*     class S(Base):                                                      *)
(*         name = CharField(max_length=3)                                  *)
(*         note = Field(required=False)                                    *)
(*         created = Field(read_only=True)                                 *)
(*         class Meta:                                                     *)
(*             fields = ('id', 'name', 'note', 'created')                  *)
(*             # or, where Meta.fields varies, other orders of the names   *)
(*             validators = {'name': [MaxLengthValidator(2)]}              *)
(***************************************************************************)
FieldNames == {"id", "name", "note", "created"}

MetaFields == <<"id", "name", "note", "created">>

DeclMaxLength == 3

MetaMaxLength == 2

MaxLengthValidator(limit) == [code |-> "max_length", limit_value |-> limit]

MetaValidators == [f \in {"name"} |-> <<MaxLengthValidator(MetaMaxLength)>>]

\* the constructor arguments of each declared field (Field.__init__ defaults)
_declared_fields ==
    [f \in FieldNames |->
        CASE f = "id" -> [cls |-> "IntegerField", required |-> TRUE,
                          read_only |-> FALSE, default |-> NoneV]
          [] f = "name" -> [cls |-> "CharField", required |-> TRUE,
                            read_only |-> FALSE, default |-> NoneV]
          [] f = "note" -> [cls |-> "Field", required |-> FALSE,
                            read_only |-> FALSE, default |-> NoneV]
          [] f = "created" -> [cls |-> "Field", required |-> TRUE,
                               read_only |-> TRUE, default |-> NoneV]]

\* Field._creation_counter of each declared field: the order in which the
\* class bodies constructed them
_creation_counter ==
    [f \in FieldNames |->
        CASE f = "id" -> 0
          [] f = "name" -> 1
          [] f = "note" -> 2
          [] f = "created" -> 3]

\* the class S is written over a base schema that declares `id`; S's own
\* class body declares the three other fields
BaseDeclared == <<"id">>

OwnAttrs == {"name", "note", "created"}

\* declared_fields.sort(key=lambda x: x[1]._creation_counter)
RECURSIVE SortByCreation(_)
SortByCreation(names) ==
    IF names = {} THEN <<>>
    ELSE LET first == CHOOSE f \in names :
                          \A g \in names : _creation_counter[f] <= _creation_counter[g]
         IN  <<first>> \o SortByCreation(names \ {first})

\* the keys of OrderedDict(pairs), given the keys of the pairs: a key that
\* comes again keeps its first place
RECURSIVE OrderedKeys(_)
OrderedKeys(keys) ==
    IF keys = <<>> THEN <<>>
    ELSE LET front == OrderedKeys(SubSeq(keys, 1, Len(keys) - 1))
             k == keys[Len(keys)]
         IN  IF \E i \in 1..Len(front) : front[i] = k THEN front
             ELSE Append(front, k)

\* SerializerMetaclass._get_declared_fields: the names of _declared_fields in
\* the order of the OrderedDict, for one base class
_get_declared_fields(base, attrs) == OrderedKeys(base \o SortByCreation(attrs))

\* the names of S._declared_fields, in order
DeclaredOrder == _get_declared_fields(BaseDeclared, OwnAttrs)

\* two requests, each constructing its own serializer: A's is followed
\* through its calls, B's is the serializer of a concurrent request, whose own
\* calls are A's with the names exchanged
Serializers == {"A", "B"}

Followed == {"A"}

NoParent == "None"

VARIABLES
    \* the mutable attributes of the declared Field objects (one object per
    \* declared field, held by the class)
    fparent, fname, fpartial, fvalidators,
    \* the attributes of each Serializer instance
    constructed, instance, initial_data, partial, validated_data, _errors,
    fields, writable_fields, _data,
    \* the outcome of the last call on a serializer, and whether is_valid was
    \* ever called on each serializer
    last, is_valid_called,
    \* the object list and the Paginator over it
    object_list, per_page, orphans, allow_empty_first_page, count, _count,
    _num_pages,
    \* PageNumberPagination.page with its paginator, the outcome of the last
    \* paginator call
    strategy_page, plast,
    \* Meta.fields of the Serializer class, the outcome of the last call made
    \* directly on a schema's run_validation / to_representation, the outcome
    \* of the last call made directly on a field
    meta_fields, olast, flast,
    \* the pages a walk over page(1), page(2), ... has returned so far
    walk

fieldVars == <<fparent, fname, fpartial, fvalidators>>

serVars == <<constructed, instance, initial_data, partial, validated_data,
             _errors, fields, writable_fields, _data, last, is_valid_called>>

pagVars == <<object_list, per_page, orphans, allow_empty_first_page, count,
             _count, _num_pages, strategy_page, plast>>

extVars == <<meta_fields, olast, flast, walk>>

vars == <<fieldVars, serVars, pagVars, extVars>>

(***************************************************************************)
(* validators.py                                                           *)
(***************************************************************************)
\* BaseValidator.__call__ of a MaxLengthValidator: the exception it raises
MaxLengthValidatorCall(validator, value) ==
    IF ~Truthy(value) THEN "none"
    ELSE IF value.t # "str" THEN "TypeError"                 \* len(value)
    ELSE IF Len(value.s) > validator.limit_value THEN "ValidationError"
    ELSE "none"

(***************************************************************************)
(* fields.py.  The result of a call is [exc, val, detail]: exc is "none"   *)
(* when the call returns val, else the exception's class, with detail the  *)
(* ValidationError's detail.                                               *)
(***************************************************************************)
Return(v) == [exc |-> "none", val |-> v, detail |-> ""]

Raise(exc, detail) == [exc |-> exc, val |-> NoneV, detail |-> detail]

\* Field.fail(key)
fail(key) == Raise("ValidationError", key)

\* Field.to_python / IntegerField.to_python
to_python(f, value) ==
    IF _declared_fields[f].cls = "IntegerField"
    THEN LET c == IntCoerce(value)
         IN  IF c.ok THEN Return(IntV(c.n)) ELSE fail("to_python")
    ELSE Return(value)

\* Field.run_validators over a list of validators
RECURSIVE run_validators_list(_, _)
run_validators_list(validators, data) ==
    IF validators = <<>> THEN Return(data)
    ELSE LET e == MaxLengthValidatorCall(Head(validators), data)
         IN  IF e = "none" THEN run_validators_list(Tail(validators), data)
             ELSE Raise(e, Head(validators).code)

\* Field.get_attribute with the field's name as given
get_attribute_named(name, obj) ==
    IF obj.isNone THEN NoneV ELSE DictGet(obj.d, name)

\* run_validation_with as it would be without the branch of partial mode
run_validation_without_partial(f, data, parent, part, validators, parentInstance, name) ==
    IF ~Truthy(data) /\ _declared_fields[f].required /\ parent = NoParent
    THEN fail("required")
    ELSE IF ~Truthy(data) /\ ~_declared_fields[f].required
    THEN Return(data)
    ELSE LET p == to_python(f, data)
         IN  IF p.exc # "none" THEN p ELSE run_validators_list(validators, p.val)

\* Field.run_validation on a field whose attributes are given
run_validation_with(f, data, parent, part, validators, parentInstance, name) ==
    IF ~Truthy(data) /\ _declared_fields[f].required /\ parent = NoParent
    THEN fail("required")
    ELSE IF ~Truthy(data) /\ part
    THEN Return(get_attribute_named(name, parentInstance))
    ELSE IF ~Truthy(data) /\ ~_declared_fields[f].required
    THEN Return(data)
    ELSE LET p == to_python(f, data)
         IN  IF p.exc # "none" THEN p ELSE run_validators_list(validators, p.val)

\* Field.get_attribute of declared field f in the current state
get_attribute(f, obj) == get_attribute_named(fname[f], obj)

\* self.parent.instance of declared field f
ParentInstance(f) == IF fparent[f] = NoParent THEN NoneObj ELSE instance[fparent[f]]

\* Field.run_validation of declared field f in the current state
FieldRunValidation(f, data) ==
    run_validation_with(f, data, fparent[f], fpartial[f], fvalidators[f],
                        ParentInstance(f), fname[f])

\* Field.to_representation / IntegerField / CharField
to_representation(f, value) ==
    CASE _declared_fields[f].cls = "IntegerField" ->
            LET c == IntCoerce(value)
            IN  IF c.ok THEN Return(IntV(c.n)) ELSE Raise("ValueError", "")
      [] _declared_fields[f].cls = "CharField" -> Return(StrOf(value))
      [] OTHER -> Return(value)

(***************************************************************************)
(* serializers.py                                                          *)
(***************************************************************************)
\* the objects a serializer may be given as its instance
ExistingObject(s) ==
    [k \in {"id", "name", "created"} |->
        CASE k = "id" -> IntV(IF s = "A" THEN 5 ELSE 6)
          [] k = "name" -> StrV(<<LetterA>>)
          [] k = "created" -> IntV(0)]

Instances(s) == {NoneObj, Obj(ExistingObject(s))}

\* the word 'aa...a' of n letters
Word(n) == [i \in 1..n |-> LetterA]

\* the values a request may carry for each field; a missing key is NoneV:
\* for name, a word the Meta validator accepts, one it refuses, a number
InputValues(f) ==
    CASE f = "id" -> {NoneV, StrV(<<7>>), StrV(<<LetterA>>)}
      [] f = "name" -> {NoneV, StrV(Word(MetaMaxLength)),
                        StrV(Word(MetaMaxLength + 1)), IntV(7)}
      [] f = "note" -> {NoneV, StrV(<<LetterA>>)}
      [] OTHER -> {NoneV}

\* the dict that holds the keys of choice whose value is not None
DictOf(choice) ==
    [k \in {f \in DOMAIN choice : choice[f] # NoneV} |-> choice[k]]

\* the initial_data of the requests: A's request varies, B's is empty
InitialDatas(s) ==
    IF s = "A"
    THEN {DictOf(c) : c \in [id : InputValues("id"), name : InputValues("name"),
                             note : InputValues("note")]}
    ELSE {EmptyDict}

\* the keyword arguments save() may be given
SaveKwargs == {EmptyDict, [k \in {"note"} |-> StrV(<<LetterA, LetterA>>)]}

\* bool(d) of a dict or None
TruthyObj(o) == ~o.isNone /\ DOMAIN o.d # {}

\* BaseSerializer.get_writable_fields, over the names of self.fields
RECURSIVE get_writable_fields(_)
get_writable_fields(names) ==
    IF names = <<>> THEN <<>>
    ELSE LET f == Head(names)
         IN  IF ~_declared_fields[f].read_only \/ Truthy(_declared_fields[f].default)
             THEN <<f>> \o get_writable_fields(Tail(names))
             ELSE get_writable_fields(Tail(names))

\* the loop of BaseSerializer.run_validation: [exc, ret, errors], exc being
\* an exception other than ValidationError that a field let through
RECURSIVE run_validation_loop(_, _, _, _)
run_validation_loop(names, data, ret, errors) ==
    IF names = <<>> THEN [exc |-> "none", ret |-> ret, errors |-> errors]
    ELSE LET name == Head(names)
             r == FieldRunValidation(name, DictGet(data, name))
         IN  CASE r.exc = "none" ->
                    run_validation_loop(Tail(names), data,
                                        DictSet(ret, fname[name], r.val), errors)
               [] r.exc = "ValidationError" ->
                    run_validation_loop(Tail(names), data, ret,
                                        DictSet(errors, name, r.detail))
               [] OTHER -> [exc |-> r.exc, ret |-> ret, errors |-> errors]

\* run_validation as it would be if the loop stopped at the first field
\* that fails
RECURSIVE run_validation_loop_first_error(_, _, _, _)
run_validation_loop_first_error(names, data, ret, errors) ==
    IF names = <<>> THEN [exc |-> "none", ret |-> ret, errors |-> errors]
    ELSE LET name == Head(names)
             r == FieldRunValidation(name, DictGet(data, name))
         IN  CASE r.exc = "none" ->
                    run_validation_loop_first_error(Tail(names), data,
                                                    DictSet(ret, fname[name], r.val),
                                                    errors)
               [] r.exc = "ValidationError" ->
                    [exc |-> "none", ret |-> ret,
                     errors |-> DictSet(errors, name, r.detail)]
               [] OTHER -> [exc |-> r.exc, ret |-> ret, errors |-> errors]

run_validation_first_error(s, data) ==
    run_validation_loop_first_error(writable_fields[s], data, EmptyDict, EmptyDict)

\* BaseSerializer.run_validation
run_validation(s, data) ==
    run_validation_loop(writable_fields[s], data, EmptyDict, EmptyDict)

\* BaseSerializer.to_representation: [exc, d]
RECURSIVE to_representation_loop(_, _, _)
to_representation_loop(names, obj, ret) ==
    IF names = <<>> THEN [exc |-> "none", d |-> ret]
    ELSE LET f == Head(names)
             attribute == get_attribute(f, obj)
             r == IF Truthy(attribute) THEN to_representation(f, attribute)
                  ELSE Return(attribute)
         IN  IF r.exc # "none" THEN [exc |-> r.exc, d |-> ret]
             ELSE to_representation_loop(Tail(names), obj, DictSet(ret, fname[f], r.val))

serializer_to_representation(s, obj) == to_representation_loop(fields[s], obj, EmptyDict)

\* the outcome of a call: the operation, the serializer, the exception raised
\* ("none" when it returned), the boolean or dict returned or carried by the
\* exception, whether the per-field pipeline ran, and the raise_exception
\* argument
Outcome(op, s, exc, ok, d, ran) ==
    [op |-> op, self |-> s, exc |-> exc, ok |-> ok, d |-> d, ran |-> ran,
     raise_exception |-> FALSE]

NoOutcome == Outcome("none", "None", "none", FALSE, EmptyDict, FALSE)

\* the declared fields Meta.fields names: those get_fields binds
MetaFieldSet == {meta_fields[i] : i \in 1..Len(meta_fields)}

\* Field.bind(parent, name) of every declared field Meta.fields names: the
\* parent, name and partial flag of the declared fields afterwards
bind(s, part) ==
    [parent |-> [f \in FieldNames |-> IF f \in MetaFieldSet THEN s ELSE fparent[f]],
     name |-> [f \in FieldNames |-> IF f \in MetaFieldSet THEN f ELSE fname[f]],
     partial |-> [f \in FieldNames |-> IF f \in MetaFieldSet THEN part ELSE fpartial[f]]]

\* the validators of the declared fields after the Meta.validators loop of
\* Serializer.__init__

BoundValidators ==
    [f \in FieldNames |->
        IF f \in DOMAIN MetaValidators THEN MetaValidators[f] ELSE fvalidators[f]]

\* Serializer.__init__(instance=inst, initial_data=data, partial=part)
Construct(s, inst, data, part) ==
    /\ ~constructed[s]
    /\ constructed' = [constructed EXCEPT ![s] = TRUE]
    /\ instance' = [instance EXCEPT ![s] = inst]
    /\ initial_data' = [initial_data EXCEPT ![s] = data]
    /\ partial' = [partial EXCEPT ![s] = part]
    /\ validated_data' = [validated_data EXCEPT ![s] = Obj(EmptyDict)]
    /\ _errors' = [_errors EXCEPT ![s] = EmptyDict]
    /\ fparent' = bind(s, part).parent
    /\ fname' = bind(s, part).name
    /\ fpartial' = bind(s, part).partial
    /\ fields' = [fields EXCEPT ![s] = meta_fields]
    /\ writable_fields' = [writable_fields EXCEPT ![s] = get_writable_fields(meta_fields)]
    /\ fvalidators' = BoundValidators
    /\ last' = Outcome("__init__", s, "none", FALSE, EmptyDict, FALSE)
    /\ UNCHANGED <<_data, is_valid_called, pagVars, extVars>>

\* BaseSerializer.is_valid(raise_exception)
is_valid(s, raise_exception) ==
    /\ constructed[s]
    /\ LET ran == ~TruthyObj(validated_data[s])
           r == run_validation(s, initial_data[s])
           crashed == ran /\ r.exc # "none"
           errors == IF ran /\ ~crashed THEN r.errors ELSE _errors[s]
           validated == IF ran /\ ~crashed /\ DOMAIN r.errors = {}
                        THEN Obj(r.ret) ELSE validated_data[s]
       IN  /\ _errors' = [_errors EXCEPT ![s] = errors]
           /\ validated_data' = [validated_data EXCEPT ![s] = validated]
           /\ last' = [(IF crashed
                       THEN Outcome("is_valid", s, r.exc, FALSE, EmptyDict, ran)
                       ELSE IF DOMAIN errors # {} /\ raise_exception
                       THEN Outcome("is_valid", s, "ValidationError", FALSE, errors, ran)
                       ELSE Outcome("is_valid", s, "none", DOMAIN errors = {},
                                    EmptyDict, ran))
                         EXCEPT !.raise_exception = raise_exception]
    /\ is_valid_called' = [is_valid_called EXCEPT ![s] = TRUE]
    /\ UNCHANGED <<fieldVars, constructed, instance, initial_data, partial,
                   fields, writable_fields, _data, pagVars, extVars>>

\* BaseSerializer.data
data(s) ==
    /\ constructed[s]
    /\ IF DOMAIN initial_data[s] # {} /\ validated_data[s].isNone
       THEN /\ last' = Outcome("data", s, "AssertionError", FALSE, EmptyDict, FALSE)
            /\ UNCHANGED _data
       ELSE IF _data[s].has
       THEN /\ last' = Outcome("data", s, "none", FALSE, _data[s].d, FALSE)
            /\ UNCHANGED _data
       ELSE LET r == IF ~instance[s].isNone /\ DOMAIN _errors[s] = {}
                     THEN serializer_to_representation(s, instance[s])
                     ELSE IF TruthyObj(validated_data[s]) /\ DOMAIN _errors[s] = {}
                     THEN serializer_to_representation(s, validated_data[s])
                     ELSE [exc |-> "none", d |-> initial_data[s]]
            IN  IF r.exc # "none"
                THEN /\ last' = Outcome("data", s, r.exc, FALSE, EmptyDict, FALSE)
                     /\ UNCHANGED _data
                ELSE /\ _data' = [_data EXCEPT ![s] = [has |-> TRUE, d |-> r.d]]
                     /\ last' = Outcome("data", s, "none", FALSE, r.d, FALSE)
    /\ UNCHANGED <<fieldVars, constructed, instance, initial_data, partial,
                   validated_data, _errors, fields, writable_fields,
                   is_valid_called, pagVars, extVars>>

\* a Python call f(*args) of a function of `params` parameters after self
CallBinds(params, args) == params = args

\* `async def create(self, validated_data)`
create_params == 1

\* `await self.create()` in save
create_args == 0

\* `async def update(self, instance, validated_data)`
update_params == 2

\* `await self.update(self.instance)` in save
update_args == 1

\* BaseSerializer.create: returns validated_data
create(validated) == validated

\* BaseSerializer.update: `instance.update(validated_data)`, dict.update
\* returning None
update(inst, validated) == NoneObj

\* BaseSerializer.save(**kwargs)
save(s, kwargs) ==
    /\ constructed[s]
    /\ IF DOMAIN _errors[s] # {}
       THEN /\ last' = Outcome("save", s, "AssertionError", FALSE, EmptyDict, FALSE)
            /\ UNCHANGED <<validated_data, instance>>
       ELSE LET merged == Obj(DictUpdate(validated_data[s].d, kwargs))
                binds == IF instance[s].isNone
                         THEN CallBinds(create_params, create_args)
                         ELSE CallBinds(update_params, update_args)
                result == IF instance[s].isNone THEN create(merged)
                          ELSE update(instance[s], merged)
            IN  /\ validated_data' = [validated_data EXCEPT ![s] = merged]
                /\ IF ~binds
                   THEN /\ last' = Outcome("save", s, "TypeError", FALSE, EmptyDict, FALSE)
                        /\ UNCHANGED instance
                   ELSE /\ instance' = [instance EXCEPT ![s] = result]
                        /\ last' = IF result.isNone
                                   THEN Outcome("save", s, "AssertionError", TRUE,
                                                EmptyDict, FALSE)
                                   ELSE Outcome("save", s, "none", TRUE, result.d, FALSE)
    /\ UNCHANGED <<fieldVars, constructed, initial_data, partial, _errors,
                   fields, writable_fields, _data, is_valid_called, pagVars, extVars>>

NoName == "None"

\* the class as declared: no field bound, CharField.__init__ having installed
\* its MaxLengthValidator
InitFields ==
    /\ fparent = [f \in FieldNames |-> NoParent]
    /\ fname = [f \in FieldNames |-> NoName]
    /\ fpartial = [f \in FieldNames |-> FALSE]
    /\ fvalidators = [f \in FieldNames |->
                        IF _declared_fields[f].cls = "CharField"
                        THEN <<MaxLengthValidator(DeclMaxLength)>> ELSE <<>>]

InitSerializers ==
    /\ constructed = [s \in Serializers |-> FALSE]
    /\ instance = [s \in Serializers |-> NoneObj]
    /\ initial_data = [s \in Serializers |-> EmptyDict]
    /\ partial = [s \in Serializers |-> FALSE]
    /\ validated_data = [s \in Serializers |-> Obj(EmptyDict)]
    /\ _errors = [s \in Serializers |-> EmptyDict]
    /\ fields = [s \in Serializers |-> <<>>]
    /\ writable_fields = [s \in Serializers |-> <<>>]
    /\ _data = [s \in Serializers |-> [has |-> FALSE, d |-> EmptyDict]]
    /\ last = NoOutcome
    /\ is_valid_called = [s \in Serializers |-> FALSE]

(***************************************************************************)
(* serializers.py, with the OrderedDicts of run_validation and             *)
(* to_representation kept in order: an OrderedDict is the sequence of its  *)
(* <<key, value>> pairs.                                                   *)
(***************************************************************************)
\* od[key] = v on an OrderedDict
OrderedDictSet(od, key, v) ==
    IF \E i \in 1..Len(od) : od[i][1] = key
    THEN [i \in 1..Len(od) |-> IF od[i][1] = key THEN <<key, v>> ELSE od[i]]
    ELSE Append(od, <<key, v>>)

\* list(od.keys())
Keys(od) == [i \in 1..Len(od) |-> od[i][1]]

\* the mapping an OrderedDict holds, without the order
AsDict(od) ==
    [k \in {od[i][1] : i \in 1..Len(od)} |->
        (CHOOSE pair \in {od[i] : i \in 1..Len(od)} : pair[1] = k)[2]]

\* the names Meta.fields lists where it varies
ExposedNames == {"id", "name", "created"}

\* the Meta.fields of the class where it varies: some of ExposedNames, each
\* once, in any order
MetaFieldsChoices ==
    {order \in UNION {[1..n -> ExposedNames] : n \in 1..Cardinality(ExposedNames)} :
        \A i, j \in DOMAIN order : i # j => order[i] # order[j]}

\* the loop of BaseSerializer.run_validation over the OrderedDict
\* writable_fields: [exc, ret, errors], ret and errors being OrderedDicts
RECURSIVE run_validation_items(_, _, _, _)
run_validation_items(names, input, ret, errors) ==
    IF names = <<>> THEN [exc |-> "none", ret |-> ret, errors |-> errors]
    ELSE LET name == Head(names)
             r == FieldRunValidation(name, DictGet(input, name))
         IN  CASE r.exc = "none" ->
                    run_validation_items(Tail(names), input,
                                         OrderedDictSet(ret, fname[name], r.val), errors)
               [] r.exc = "ValidationError" ->
                    run_validation_items(Tail(names), input, ret,
                                         OrderedDictSet(errors, name, r.detail))
               [] OTHER -> [exc |-> r.exc, ret |-> ret, errors |-> errors]

\* to_representation as it would be if every attribute went through the
\* field's to_representation
RECURSIVE to_representation_items_always_rendered(_, _, _)
to_representation_items_always_rendered(names, obj, ret) ==
    IF names = <<>> THEN [exc |-> "none", ret |-> ret]
    ELSE LET f == Head(names)
             attribute == get_attribute(f, obj)
             r == to_representation(f, attribute)
         IN  IF r.exc # "none" THEN [exc |-> r.exc, ret |-> ret]
             ELSE to_representation_items_always_rendered(
                      Tail(names), obj, OrderedDictSet(ret, fname[f], r.val))

\* the loop of BaseSerializer.to_representation over the OrderedDict fields:
\* [exc, ret], ret being an OrderedDict
RECURSIVE to_representation_items(_, _, _)
to_representation_items(names, obj, ret) ==
    IF names = <<>> THEN [exc |-> "none", ret |-> ret]
    ELSE LET f == Head(names)
             attribute == get_attribute(f, obj)
             r == IF Truthy(attribute) THEN to_representation(f, attribute)
                  ELSE Return(attribute)
         IN  IF r.exc # "none" THEN [exc |-> r.exc, ret |-> ret]
             ELSE to_representation_items(Tail(names), obj,
                                          OrderedDictSet(ret, fname[f], r.val))

\* the outcome of a call made directly on a schema: the operation, the
\* serializer, the argument, the exception raised ("none" when it returned),
\* the value returned and the detail the ValidationError carries
SchemaOutcome(op, s, arg, exc, ret, errors) ==
    [op |-> op, self |-> s, arg |-> arg, exc |-> exc, ret |-> ret, errors |-> errors]

NoSchemaOutcome == SchemaOutcome("none", "None", EmptyDict, "none", <<>>, <<>>)

\* the data handed to run_validation
SchemaDatas ==
    {DictOf(c) : c \in [id : InputValues("id"),
                        name : {NoneV, StrV(Word(MetaMaxLength + 1))},
                        note : {NoneV}]}

\* BaseSerializer.run_validation(data) called on a constructed serializer
run_validation_call(s, input) ==
    /\ constructed[s]
    /\ LET r == run_validation_items(writable_fields[s], input, <<>>, <<>>)
       IN  IF r.exc # "none"
           THEN /\ olast' = SchemaOutcome("run_validation", s, input, r.exc, <<>>, <<>>)
                /\ UNCHANGED _errors
           ELSE /\ _errors' = [_errors EXCEPT ![s] = AsDict(r.errors)]
                /\ olast' = IF r.errors # <<>>
                            THEN SchemaOutcome("run_validation", s, input,
                                               "ValidationError", <<>>, r.errors)
                            ELSE SchemaOutcome("run_validation", s, input, "none",
                                               r.ret, <<>>)
    /\ UNCHANGED <<fieldVars, constructed, instance, initial_data, partial,
                   validated_data, fields, writable_fields, _data, last,
                   is_valid_called, pagVars, meta_fields, flast, walk>>

\* the attributes an object handed to to_representation may carry; a missing
\* attribute is NoneV
AttributeValues(f) ==
    CASE f = "id" -> {NoneV, IntV(0), StrV(<<7>>), StrV(<<>>), StrV(<<LetterA>>)}
      [] f = "name" -> {NoneV, StrV(<<>>), StrV(<<LetterA>>), IntV(0), IntV(7)}
      [] OTHER -> {NoneV}

RenderObjects ==
    {Obj(DictOf(c)) : c \in [id : AttributeValues("id"), name : AttributeValues("name")]}

\* BaseSerializer.to_representation(instance) called on a constructed
\* serializer
to_representation_call(s, obj) ==
    /\ constructed[s]
    /\ LET r == to_representation_items(fields[s], obj, <<>>)
       IN  olast' = SchemaOutcome("to_representation", s, obj, r.exc,
                                  IF r.exc = "none" THEN r.ret ELSE <<>>, <<>>)
    /\ UNCHANGED <<fieldVars, serVars, pagVars, meta_fields, flast, walk>>

(***************************************************************************)
(* ListSerializer.  Calling an `async def` function without awaiting it    *)
(* returns a coroutine object and runs none of its body.                   *)
(***************************************************************************)
\* the longest list handed to ListSerializer.run_validation
MaxItems == 2

\* the coroutine object of child.run_validation(item)
Coroutine(child, item) == [t |-> "coroutine", self |-> child, arg |-> item]

\* `self.child.run_validation(item)` as ListSerializer.run_validation writes
\* it, the child's run_validation being `async def`
child_run_validation(child, item) ==
    [exc |-> "none", val |-> Coroutine(child, item), detail |-> EmptyDict]

\* the items of the lists: one the child schema accepts, one it refuses, {}
ListItems ==
    {[k \in {"id", "name"} |-> IF k = "id" THEN StrV(<<7>>) ELSE StrV(Word(MetaMaxLength))],
     [k \in {"id", "name"} |-> IF k = "id" THEN StrV(<<LetterA>>)
                               ELSE StrV(Word(MetaMaxLength + 1))],
     EmptyDict}

ItemLists == UNION {[1..n -> ListItems] : n \in 0..MaxItems}

\* the loop of ListSerializer.run_validation: [ret, errors]
RECURSIVE list_run_validation_loop(_, _, _, _)
list_run_validation_loop(child, items, ret, errors) ==
    IF items = <<>> THEN [ret |-> ret, errors |-> errors]
    ELSE LET r == child_run_validation(child, Head(items))
         IN  IF r.exc = "ValidationError"
             THEN list_run_validation_loop(child, Tail(items), ret,
                                           Append(errors, r.detail))
             ELSE list_run_validation_loop(child, Tail(items), Append(ret, r.val),
                                           Append(errors, EmptyDict))

\* any(errors) over a list of dicts
any(errors) == \E i \in 1..Len(errors) : DOMAIN errors[i] # {}

\* ListSerializer(child=child).run_validation(items)
list_run_validation(child, items) ==
    /\ constructed[child]
    /\ LET r == list_run_validation_loop(child, items, <<>>, <<>>)
       IN  olast' = IF any(r.errors)
                    THEN SchemaOutcome("list_run_validation", child, items,
                                       "ValidationError", <<>>, r.errors)
                    ELSE SchemaOutcome("list_run_validation", child, items, "none",
                                       r.ret, <<>>)
    /\ UNCHANGED <<fieldVars, serVars, pagVars, meta_fields, flast, walk>>

(***************************************************************************)
(* fields.py: calls made directly on a field.  The declared fields of S    *)
(* are called as they stand, bound or not; a BooleanField and a            *)
(* ChoiceField are constructed for the call and are bound to no parent.    *)
(***************************************************************************)
\* the outcome of a call on a field: the operation, the field, the argument,
\* and the result [exc, val, detail] of the call
FieldCall(op, f, arg, r) ==
    [op |-> op, field |-> f, arg |-> arg, exc |-> r.exc, val |-> r.val,
     detail |-> r.detail, options |-> <<>>]

NoFieldCall == FieldCall("none", "None", NoneV, Return(NoneV))

\* the arguments of Field.run_validation: empty ones and others
FieldInputs == {NoneV, StrV(<<>>), IntV(0), StrV(<<7>>), StrV(<<LetterA>>)}

\* Field.run_validation(data) called on declared field f of S; the outcome
\* keeps the field's parent, partial flag and name and the parent's instance
\* as they were at the call
field_run_validation_call(f, input) ==
    /\ flast' = [FieldCall("run_validation", f, input, FieldRunValidation(f, input))
                   EXCEPT !.options = [parent |-> fparent[f], partial |-> fpartial[f],
                                       name |-> fname[f],
                                       instance |-> ParentInstance(f)]]
    /\ UNCHANGED <<fieldVars, serVars, pagVars, meta_fields, olast, walk>>

\* 'true', 'True', 'false', 'False' and the other strings of the two sets
StrTrue == StrV(<<Letter(20), Letter(18), Letter(21), Letter(5)>>)

StrCapTrue == StrV(<<Upper(20), Letter(18), Letter(21), Letter(5)>>)

StrFalse == StrV(<<Letter(6), Letter(1), Letter(12), Letter(19), Letter(5)>>)

StrCapFalse == StrV(<<Upper(6), Letter(1), Letter(12), Letter(19), Letter(5)>>)

\* BooleanField.TRUE_VALUES
TRUE_VALUES ==
    {StrV(<<Letter(20)>>), StrV(<<Upper(20)>>), StrTrue, StrCapTrue,
     StrV(<<Upper(20), Upper(18), Upper(21), Upper(5)>>), StrV(<<1>>), IntV(1),
     BoolV(TRUE)}

\* BooleanField.FALSE_VALUES
FALSE_VALUES ==
    {StrV(<<Letter(6)>>), StrV(<<Upper(6)>>), StrFalse, StrCapFalse,
     StrV(<<Upper(6), Upper(1), Upper(12), Upper(19), Upper(5)>>), StrV(<<0>>),
     IntV(0), FloatV(0), BoolV(FALSE)}

\* BooleanField.to_internal_value, the method the class defines for parsing
to_internal_value(input) ==
    LET t == InSet(input, TRUE_VALUES)
        f == InSet(input, FALSE_VALUES)
    IN  IF t.exc = "none" /\ t.found THEN Return(BoolV(TRUE))
        ELSE IF t.exc = "none" /\ f.exc = "none" /\ f.found THEN Return(BoolV(FALSE))
        ELSE Raise("ValidationError", "invalid")

\* the to_python of a BooleanField: the class defines none, Field.to_python
\* is inherited
boolean_to_python(value) == Return(value)

\* Field.run_validation on a field bound to no parent, constructed with
\* required and partial as given, its class's to_python having returned
\* `parsed`; a field constructed by itself has no validators
unbound_run_validation(required, part, input, parsed) ==
    IF ~Truthy(input) /\ required THEN fail("required")
    ELSE IF ~Truthy(input) /\ part THEN Raise("AttributeError", "")
    ELSE IF ~Truthy(input) /\ ~required THEN Return(input)
    ELSE IF parsed.exc # "none" THEN parsed
    ELSE run_validators_list(<<>>, parsed.val)

\* the inputs of a BooleanField
BooleanInputs ==
    {StrCapTrue, StrTrue, StrV(<<1>>), IntV(1), BoolV(TRUE),
     StrCapFalse, StrFalse, StrV(<<0>>), IntV(0), BoolV(FALSE),
     StrV(<<LetterA>>), IntV(2), NoneV, ListV(1), FloatV(0), StrV(<<Letter(20)>>)}

\* BooleanField(required=required, partial=part).run_validation(data)
boolean_run_validation(required, part, input) ==
    /\ flast' = [FieldCall("BooleanField.run_validation", "None", input,
                           unbound_run_validation(required, part, input,
                                                  boolean_to_python(input)))
                   EXCEPT !.options = <<required, part>>]
    /\ UNCHANGED <<fieldVars, serVars, pagVars, meta_fields, olast, walk>>

\* 'one', 'two', 'zero'
LabelOne == StrV(<<Letter(15), Letter(14), Letter(5)>>)

LabelTwo == StrV(<<Letter(20), Letter(23), Letter(15)>>)

LabelZero == StrV(<<Letter(26), Letter(5), Letter(18), Letter(15)>>)

\* the `choices` arguments: the pairs (value, label) of the example, and
\* pairs with the value 0 and with an empty label
ChoiceLists ==
    {<<<<IntV(1), LabelOne>>, <<IntV(2), LabelTwo>>>>,
     <<<<IntV(0), LabelZero>>, <<IntV(1), StrV(<<>>)>>>>}

\* OrderedDict(choices).get(data): [exc, val]
choices_get(choices, input) ==
    IF Unhashable(input) THEN Raise("TypeError", "")
    ELSE LET hits == {i \in 1..Len(choices) : PyEq(choices[i][1], input)}
         IN  IF hits = {} THEN Return(NoneV)
             ELSE Return(choices[CHOOSE i \in hits : \A j \in hits : j <= i][2])

\* choice_strings_to_values.get(data), the dict {str(key): key}: [exc, val]
choice_strings_to_values_get(choices, input) ==
    IF Unhashable(input) THEN Raise("TypeError", "")
    ELSE LET hits == {i \in 1..Len(choices) : PyEq(StrOf(choices[i][1]), input)}
         IN  IF hits = {} THEN Return(NoneV)
             ELSE Return(choices[CHOOSE i \in hits : \A j \in hits : j <= i][1])

\* ChoiceField.to_python; the message of invalid_choice is formatted with
\* the input, which val carries
choice_to_python(choices, allow_blank, input) ==
    IF PyEq(input, StrV(<<>>)) /\ allow_blank THEN Return(StrV(<<>>))
    ELSE LET byString == choice_strings_to_values_get(choices, input)
             byValue == choices_get(choices, input)
         IN  IF byString.exc # "none" THEN byString
             ELSE IF Truthy(byString.val) THEN Return(input)
             ELSE IF byValue.exc # "none" THEN byValue
             ELSE IF Truthy(byValue.val) THEN Return(input)
             ELSE [exc |-> "ValidationError", val |-> input, detail |-> "invalid_choice"]

\* the inputs of a ChoiceField
ChoiceInputs ==
    {IntV(0), IntV(1), IntV(2), IntV(3), StrV(<<0>>), StrV(<<1>>), StrV(<<2>>),
     StrV(<<3>>), StrV(<<>>), NoneV, ListV(1), BoolV(TRUE)}

\* ChoiceField(choices, allow_blank=allow_blank).to_python(data)
choice_to_python_call(choices, allow_blank, input) ==
    /\ flast' = [FieldCall("ChoiceField.to_python", "None", input,
                           choice_to_python(choices, allow_blank, input))
                   EXCEPT !.options = <<choices, allow_blank>>]
    /\ UNCHANGED <<fieldVars, serVars, pagVars, meta_fields, olast, walk>>

(***************************************************************************)
(* pagination.py.  The object list is a Python list of MaxCount items at   *)
(* most, item i being the number i.  None or an int is <<>> or <<n>>.      *)
(***************************************************************************)
MaxCount == 12

MaxPerPage == 5

MaxOrphans == 2

None == <<>>

Some(n) == <<n>>

ObjectLists == {[i \in 1..n |-> i] : n \in 0..MaxCount}

\* object_list[bottom:top] of a list, for 0 <= bottom
Slice(list, bottom, top) ==
    LET lo == IF bottom > Len(list) THEN Len(list) ELSE bottom
        hi == IF top > Len(list) THEN Len(list) ELSE top
    IN  SubSeq(list, lo + 1, hi)

\* int(ceil(hits / float(per_page)))
CeilDiv(hits, pp) == (hits + pp - 1) \div pp

Max(a, b) == IF a >= b THEN a ELSE b

\* compute_num_pages as it would be if orphans were left out of the count
compute_num_pages_without_orphans(cnt, orph, pp, allow) ==
    IF cnt = 0 /\ ~allow THEN 0 ELSE CeilDiv(Max(1, cnt), pp)

\* Paginator.num_pages when nothing is memoized, from self.count
compute_num_pages(cnt, orph, pp, allow) ==
    IF cnt = 0 /\ ~allow THEN 0 ELSE CeilDiv(Max(1, cnt - orph), pp)

\* Paginator.num_pages: the value read, given the memo and self.count
num_pages(memo, cnt, orph, pp, allow) ==
    IF memo # None THEN memo[1] ELSE compute_num_pages(cnt, orph, pp, allow)

\* Paginator.get_count: list.count() raises TypeError, so len() is taken
get_count(memo, list) == IF memo # None THEN memo[1] ELSE Len(list)

\* validate_number as it would be if page 0 passed the lower bound
validate_number_from_zero(number, memo, cnt, orph, pp, allow) ==
    LET c == IntCoerce(number)
        np == num_pages(memo, cnt, orph, pp, allow)
    IN  IF ~c.ok THEN [exc |-> "PageNotAnInteger", n |-> 0, read |-> FALSE]
        ELSE IF c.n < 0 THEN [exc |-> "EmptyPage", n |-> c.n, read |-> FALSE]
        ELSE IF c.n > np /\ ~(c.n = 1 /\ allow)
        THEN [exc |-> "EmptyPage", n |-> c.n, read |-> TRUE]
        ELSE [exc |-> "none", n |-> c.n, read |-> TRUE]

\* Paginator.validate_number: [exc, n, read], read telling whether
\* self.num_pages was read
validate_number(number, memo, cnt, orph, pp, allow) ==
    LET c == IntCoerce(number)
        np == num_pages(memo, cnt, orph, pp, allow)
    IN  IF ~c.ok THEN [exc |-> "PageNotAnInteger", n |-> 0, read |-> FALSE]
        ELSE IF c.n < 1 THEN [exc |-> "EmptyPage", n |-> c.n, read |-> FALSE]
        ELSE IF c.n > np /\ ~(c.n = 1 /\ allow)
        THEN [exc |-> "EmptyPage", n |-> c.n, read |-> TRUE]
        ELSE [exc |-> "none", n |-> c.n, read |-> TRUE]

\* page_bounds as it would be if orphans were left out of the clamp
page_bounds_without_orphans(number, cnt, orph, pp) ==
    LET bottom == (number - 1) * pp
        top == bottom + pp
    IN  [bottom |-> bottom, top |-> IF top >= cnt THEN cnt ELSE top]

\* the slice bounds of Paginator.page
page_bounds(number, cnt, orph, pp) ==
    LET bottom == (number - 1) * pp
        top == bottom + pp
    IN  [bottom |-> bottom, top |-> IF top + orph >= cnt THEN cnt ELSE top]

NoPage == [has |-> FALSE, object_list |-> <<>>, number |-> 0]

PageOf(list, number) == [has |-> TRUE, object_list |-> list, number |-> number]

\* the outcome of a paginator call: the exception raised ("none" when it
\* returned), the integer returned, the page number argument, the Page
\* returned
POutcome(op, exc, n, arg, pg) ==
    [op |-> op, exc |-> exc, n |-> n, arg |-> arg, page |-> pg]

\* the largest page number asked for
MaxNumber == 4

\* the `number` arguments: ints, numeric and non-numeric strings, None, 1.5
PageNumbers ==
    {IntV(k) : k \in -1..MaxNumber}
        \cup {StrV(<<2>>), StrV(<<LetterA>>), NoneV, FloatV(3)}

\* 'last'
LastString == StrV(<<Letter(12), Letter(1), Letter(19), Letter(20)>>)

last_page_strings == {LastString}

\* the values of the page query parameter: absent (the default 1), a
\* number, 'last', another word
PageParams == {IntV(1), StrV(<<1>>), StrV(<<2>>), StrV(<<3>>), LastString, StrV(<<LetterA>>)}

\* a Paginator's attributes, as a Page refers to them
PaginatorOf(cnt, memoPages, orph, pp, allow) ==
    [count |-> cnt, _num_pages |-> memoPages, orphans |-> orph, per_page |-> pp,
     allow_empty_first_page |-> allow]

NoStrategyPage == [page |-> NoPage, paginator |-> PaginatorOf(0, None, 0, 1, TRUE)]

InitPaginator ==
    /\ object_list \in ObjectLists
    /\ per_page \in 1..MaxPerPage
    /\ orphans \in 0..MaxOrphans
    /\ allow_empty_first_page \in BOOLEAN
    /\ count = 0
    /\ _count = None
    /\ _num_pages = None
    /\ strategy_page = NoStrategyPage
    /\ plast = POutcome("__init__", "none", 0, NoneV, NoPage)

\* reading Paginator.num_pages
read_num_pages ==
    /\ _num_pages' = Some(num_pages(_num_pages, count, orphans, per_page,
                                    allow_empty_first_page))
    /\ plast' = POutcome("num_pages", "none", _num_pages'[1], NoneV, NoPage)
    /\ UNCHANGED <<object_list, per_page, orphans, allow_empty_first_page, count,
                   _count, strategy_page, fieldVars, serVars, extVars>>

\* Paginator.validate_number(number) called by itself
validate_number_call(number) ==
    /\ LET v == validate_number(number, _num_pages, count, orphans, per_page,
                                allow_empty_first_page)
       IN  /\ _num_pages' = IF v.read
                            THEN Some(num_pages(_num_pages, count, orphans, per_page,
                                                allow_empty_first_page))
                            ELSE _num_pages
           /\ plast' = POutcome("validate_number", v.exc, v.n, number, NoPage)
    /\ UNCHANGED <<object_list, per_page, orphans, allow_empty_first_page, count,
                   _count, strategy_page, fieldVars, serVars, extVars>>

\* the effect of Paginator.page(number) on a paginator whose attributes are
\* given: [exc, count, _count, _num_pages, page]
page_effect(number, list, memoCount, memoPages, orph, pp, allow) ==
    LET cnt == get_count(memoCount, list)
        v == validate_number(number, memoPages, cnt, orph, pp, allow)
        b == page_bounds(v.n, cnt, orph, pp)
    IN  [exc |-> v.exc, n |-> v.n, count |-> cnt, _count |-> Some(cnt),
         _num_pages |-> IF v.read THEN Some(num_pages(memoPages, cnt, orph, pp, allow))
                        ELSE memoPages,
         page |-> IF v.exc = "none"
                  THEN PageOf(Slice(list, b.bottom, b.top), v.n) ELSE NoPage]

\* Paginator.page(number)
page_call(number) ==
    /\ LET e == page_effect(number, object_list, _count, _num_pages, orphans,
                            per_page, allow_empty_first_page)
       IN  /\ count' = e.count
           /\ _count' = e._count
           /\ _num_pages' = e._num_pages
           /\ plast' = POutcome("page", e.exc, e.n, number, e.page)
    /\ UNCHANGED <<object_list, per_page, orphans, allow_empty_first_page,
                   strategy_page, fieldVars, serVars, extVars>>

\* a caller's walk over the pages: page(1) first, then page(2), ... as long
\* as the paginator's num_pages tells of a further page; the slices returned
\* are kept in order
walk_next ==
    /\ walk = <<>> \/ Len(walk) < num_pages(_num_pages, count, orphans, per_page,
                                           allow_empty_first_page)
    /\ LET number == IntV(Len(walk) + 1)
           e == page_effect(number, object_list, _count, _num_pages, orphans,
                            per_page, allow_empty_first_page)
       IN  /\ count' = e.count
           /\ _count' = e._count
           /\ _num_pages' = e._num_pages
           /\ plast' = POutcome("page", e.exc, e.n, number, e.page)
           /\ walk' = IF e.exc = "none" THEN Append(walk, e.page.object_list) ELSE walk
    /\ UNCHANGED <<object_list, per_page, orphans, allow_empty_first_page,
                   strategy_page, fieldVars, serVars, meta_fields, olast, flast>>

\* PageNumberPagination.paginate_object_list with the page size the strategy
\* resolves (0: pagination is off) and the page query parameter; the
\* strategy builds its own Paginator(object_list, page_size)
paginate_object_list(page_size, param) ==
    /\ IF page_size = 0
       THEN /\ plast' = POutcome("paginate_object_list", "none", 0, param, NoPage)
            /\ UNCHANGED strategy_page
       ELSE LET isLast == param \in last_page_strings
                memo == IF isLast THEN Some(num_pages(None, 0, 0, page_size, TRUE))
                        ELSE None
                page_number == IF isLast THEN IntV(memo[1]) ELSE param
                e == page_effect(page_number, object_list, None, memo, 0, page_size, TRUE)
            IN  /\ strategy_page' =
                      IF e.exc = "none"
                      THEN [page |-> e.page,
                            paginator |-> PaginatorOf(e.count, e._num_pages, 0,
                                                      page_size, TRUE)]
                      ELSE strategy_page
                /\ plast' = POutcome("paginate_object_list",
                                     IF e.exc = "none" THEN "none" ELSE "NotFound",
                                     e.n, param, e.page)
    /\ UNCHANGED <<object_list, per_page, orphans, allow_empty_first_page,
                   count, _count, _num_pages, fieldVars, serVars, extVars>>

\* Page.has_next of a page whose paginator is given
has_next(pg, pr) ==
    pg.number < num_pages(pr._num_pages, pr.count, pr.orphans, pr.per_page,
                          pr.allow_empty_first_page)

\* Page.start_index
start_index(pg, pr) == IF pr.count = 0 THEN 0 ELSE pr.per_page * (pg.number - 1) + 1

\* the Paginator of the model, as a Page refers to it
paginator ==
    PaginatorOf(count, _num_pages, orphans, per_page, allow_empty_first_page)

(***************************************************************************)
(* The specifications                                                      *)
(***************************************************************************)
\* the paginator left as constructed over the empty list
IdlePaginator ==
    /\ object_list = <<>>
    /\ per_page = 1
    /\ orphans = 0
    /\ allow_empty_first_page = TRUE
    /\ count = 0
    /\ _count = None
    /\ _num_pages = None
    /\ strategy_page = NoStrategyPage
    /\ plast = POutcome("__init__", "none", 0, NoneV, NoPage)

\* the class with Meta.fields as written, no direct call made, no walk begun
IdleCalls ==
    /\ olast = NoSchemaOutcome
    /\ flast = NoFieldCall
    /\ walk = <<>>

IdleExt == meta_fields = MetaFields /\ IdleCalls

InitSerializer == InitFields /\ InitSerializers /\ IdlePaginator /\ IdleExt

NextSerializer ==
    \/ \E s \in Serializers :
          \E inst \in Instances(s), d \in InitialDatas(s), part \in BOOLEAN :
          Construct(s, inst, d, part)
    \/ \E s \in Followed, raise_exception \in BOOLEAN : is_valid(s, raise_exception)
    \/ \E s \in Followed : data(s)
    \/ \E s \in Followed, kwargs \in SaveKwargs : save(s, kwargs)

SpecSerializer == InitSerializer /\ [][NextSerializer]_vars

InitPagination == InitFields /\ InitSerializers /\ InitPaginator /\ IdleExt

NextPaginator ==
    \/ read_num_pages
    \/ \E number \in PageNumbers : validate_number_call(number)
    \/ \E number \in PageNumbers : page_call(number)

SpecPaginator == InitPagination /\ [][NextPaginator]_vars

\* the strategy over an object list: the paginator of the model stays as
\* constructed, the strategy building its own
InitStrategy ==
    /\ InitFields
    /\ InitSerializers
    /\ InitPaginator
    /\ IdleExt
    /\ per_page = 1
    /\ orphans = 0
    /\ allow_empty_first_page

NextStrategy ==
    \E page_size \in 0..MaxPerPage, param \in PageParams :
        paginate_object_list(page_size, param)

SpecStrategy == InitStrategy /\ [][NextStrategy]_vars

\* a schema whose Meta.fields lists declared names in some order, called
\* directly
InitSchema ==
    /\ InitFields
    /\ InitSerializers
    /\ IdlePaginator
    /\ meta_fields \in MetaFieldsChoices
    /\ IdleCalls

NextSchema ==
    \/ \E s \in Followed : \E inst \in Instances(s), part \in BOOLEAN :
          Construct(s, inst, EmptyDict, part)
    \/ \E s \in Followed : \E d \in SchemaDatas : run_validation_call(s, d)
    \/ \E s \in Followed, obj \in RenderObjects : to_representation_call(s, obj)
    \/ \E s \in Followed, items \in ItemLists : list_run_validation(s, items)

SpecSchema == InitSchema /\ [][NextSchema]_vars

\* the fields of S and fields constructed by themselves, called directly
NextField ==
    \/ \E s \in Serializers : \E inst \in Instances(s), part \in BOOLEAN :
          Construct(s, inst, EmptyDict, part)
    \/ \E f \in FieldNames, d \in FieldInputs : field_run_validation_call(f, d)
    \/ \E required \in BOOLEAN, part \in BOOLEAN, d \in BooleanInputs :
          boolean_run_validation(required, part, d)
    \/ \E choices \in ChoiceLists, allow_blank \in BOOLEAN, d \in ChoiceInputs :
          choice_to_python_call(choices, allow_blank, d)

SpecField == InitSerializer /\ [][NextField]_vars

\* a fresh Paginator walked page by page
SpecPages == InitPagination /\ [][walk_next]_vars

(***************************************************************************)
(* Properties of the serializer                                            *)
(***************************************************************************)
WritableNames(s) == {writable_fields[s][i] : i \in 1..Len(writable_fields[s])}

\* the outcome of field f's run_validation on the input s was given for it
FieldOutcome(s, f) == FieldRunValidation(f, DictGet(initial_data[s], f))

\* the last call was is_valid on s and it returned or raised ValidationError
IsValidCompleted(s) ==
    /\ last.op = "is_valid"
    /\ last.self = s
    /\ last.exc \in {"none", "ValidationError"}

\* C1: when is_valid has run the per-field pipeline to its end, the keys of
\* errors are exactly the writable fields whose run_validation raised
\* ValidationError, each mapped to that field's detail, whichever fields
\* failed before it; is_valid returns true iff errors is empty; with
\* raise_exception=True and errors it raises a ValidationError that carries
\* the whole error mapping, and it raises it in no other case.
C1_ErrorsAggregated ==
    \A s \in Serializers :
        IsValidCompleted(s) =>
            /\ last.ran =>
                  /\ DOMAIN _errors[s] =
                        {f \in WritableNames(s) : FieldOutcome(s, f).exc = "ValidationError"}
                  /\ \A f \in DOMAIN _errors[s] : _errors[s][f] = FieldOutcome(s, f).detail
            /\ last.exc = "none" => last.ok = (DOMAIN _errors[s] = {})
            /\ last.exc = "ValidationError" <=>
                  (last.raise_exception /\ DOMAIN _errors[s] # {})
            /\ last.exc = "ValidationError" => last.d = _errors[s]

\* C1 witness: is_valid ran the pipeline and two fields failed at once, the
\* first of them not stopping the second
C1_Witness ==
    /\ IsValidCompleted("A")
    /\ last.ran
    /\ DOMAIN _errors["A"] = {"id", "name"}
    /\ last.exc = "ValidationError"

\* C2: in a non-partial schema, after is_valid has run, every writable field
\* declared required=True whose input is missing or empty is reported under
\* its name with the 'required' message, and is_valid does not return true.
C2_RequiredEnforced ==
    \A s \in Serializers :
        (IsValidCompleted(s) /\ last.ran /\ ~partial[s]) =>
            \A f \in WritableNames(s) :
                (_declared_fields[f].required /\ ~Truthy(DictGet(initial_data[s], f))) =>
                    /\ f \in DOMAIN _errors[s]
                    /\ _errors[s][f] = "required"
                    /\ ~last.ok

\* C3: the fields a constructed serializer uses are bound to it: their
\* parent is that serializer and their partial flag is its own, whatever
\* other serializers of the class are constructed or used.
C3_FieldsBoundToOwner ==
    \A s \in Serializers :
        constructed[s] =>
            \A i \in 1..Len(fields[s]) :
                /\ fparent[fields[s][i]] = s
                /\ fpartial[fields[s][i]] = partial[s]

\* C8: reading data on a serializer that was given non-empty initial_data,
\* before is_valid was ever called on it, raises AssertionError.
C8_DataNeedsIsValid ==
    \A s \in Serializers :
        (last.op = "data" /\ last.self = s /\ DOMAIN initial_data[s] # {}
            /\ ~is_valid_called[s]) =>
            last.exc = "AssertionError"

\* C9: save with errors raises AssertionError and leaves instance alone;
\* without errors it returns the object create or update produced, which is
\* not None and is stored as instance.
C9_SaveDispatches ==
    \A s \in Serializers :
        (last.op = "save" /\ last.self = s) =>
            IF DOMAIN _errors[s] # {}
            THEN last.exc = "AssertionError" /\ ~last.ok
            ELSE /\ last.exc = "none"
                 /\ ~instance[s].isNone
                 /\ last.d = instance[s].d

\* C10: a call of is_valid on a serializer on which is_valid was called
\* before leaves errors and validated_data as they were, and does not run
\* the per-field pipeline once validated data exists.
C10_IsValidIdempotent ==
    [][\A s \in Serializers :
          (last'.op = "is_valid" /\ last'.self = s /\ is_valid_called[s]) =>
              /\ _errors'[s] = _errors[s]
              /\ validated_data'[s] = validated_data[s]
              /\ TruthyObj(validated_data[s]) => ~last'.ran]_vars

(***************************************************************************)
(* Properties of the paginator                                             *)
(***************************************************************************)
\* the items of object_list[bottom:top] for page n, top clamped to the
\* number of items exactly when bottom + per_page + orphans reaches it
ExpectedSlice(list, n, pp, orph) ==
    LET bottom == (n - 1) * pp
        top == IF bottom + pp + orph >= Len(list) THEN Len(list) ELSE bottom + pp
        size == IF top > bottom THEN top - bottom ELSE 0
    IN  [j \in 1..size |-> list[bottom + j]]

ListOf(n) == [i \in 1..n |-> i]

\* 25 items, per_page=10, orphans=0: page 3 holds the last 5 items
Example25 ==
    LET e == page_effect(IntV(3), ListOf(25), None, None, 0, 10, TRUE)
    IN  e.exc = "none" /\ e.page.object_list = <<21, 22, 23, 24, 25>>

\* 23 items, per_page=10, orphans=5: page 2 holds the last 13 items
Example23 ==
    LET e == page_effect(IntV(2), ListOf(23), None, None, 5, 10, TRUE)
    IN  e.exc = "none" /\ e.page.object_list = [j \in 1..13 |-> 10 + j]

\* C4: a page(n) that returns, returns the Page numbered n over
\* object_list[bottom:top], bottom = (n-1)*per_page, top = bottom+per_page
\* clamped to count exactly when bottom+per_page+orphans >= count; so do the
\* two examples of the specification.
C4_PageSlice ==
    /\ (plast.op = "page" /\ plast.exc = "none") =>
          /\ plast.page.has
          /\ plast.page.number = plast.n
          /\ plast.page.object_list = ExpectedSlice(object_list, plast.n, per_page, orphans)
    /\ Example25
    /\ Example23

\* C4 witness: a page that absorbed orphans, longer than per_page
C4_Witness ==
    /\ plast.op = "page"
    /\ plast.exc = "none"
    /\ orphans > 0
    /\ Len(plast.page.object_list) > per_page

\* C5: every read of num_pages gives 0 for an empty collection with
\* allow_empty_first_page off, and ceil(max(1, count - orphans) / per_page)
\* otherwise, count being the number of items of the collection.
C5_NumPagesOfCollection ==
    plast.op = "num_pages" =>
        plast.n = IF Len(object_list) = 0 /\ ~allow_empty_first_page THEN 0
                  ELSE CeilDiv(Max(1, Len(object_list) - orphans), per_page)

\* the last call was `op` with a number that int() takes, worth n
CalledWith(op, n) ==
    /\ plast.op = op
    /\ IntCoerce(plast.arg).ok
    /\ IntCoerce(plast.arg).n = n

\* C6: validate_number raises PageNotAnInteger for a number int() refuses,
\* EmptyPage for one below 1 or above num_pages (unless it is 1 and
\* allow_empty_first_page is set), and returns the integer otherwise; page(1)
\* of an empty collection returns an empty page whose start_index is 0 when
\* allow_empty_first_page is set, and raises EmptyPage when it is not.
C6_ValidateNumber ==
    /\ plast.op = "validate_number" =>
          LET c == IntCoerce(plast.arg)
          IN  IF ~c.ok THEN plast.exc = "PageNotAnInteger"
              ELSE IF c.n < 1 THEN plast.exc = "EmptyPage"
              ELSE IF c.n > _num_pages[1] /\ ~(c.n = 1 /\ allow_empty_first_page)
              THEN plast.exc = "EmptyPage"
              ELSE plast.exc = "none" /\ plast.n = c.n
    /\ (CalledWith("page", 1) /\ object_list = <<>>) =>
          IF allow_empty_first_page
          THEN /\ plast.exc = "none"
               /\ plast.page.object_list = <<>>
               /\ start_index(plast.page, paginator) = 0
          ELSE plast.exc = "EmptyPage"

\* C6 witness: page(1) of an empty collection returned an empty page
C6_Witness ==
    /\ CalledWith("page", 1)
    /\ object_list = <<>>
    /\ allow_empty_first_page
    /\ plast.exc = "none"
    /\ plast.page.has

\* C7: with page='last' the strategy retains the final page of the
\* collection: its number is the number of pages of the collection's item
\* count, its slice ends at the last item, and has_next() is false.
C7_LastPage ==
    (plast.op = "paginate_object_list" /\ plast.arg \in last_page_strings
        /\ plast.page.has) =>
        /\ plast.exc = "none"
        /\ strategy_page.page = plast.page
        /\ plast.page.number =
              CeilDiv(Max(1, Len(object_list)), strategy_page.paginator.per_page)
        /\ object_list # <<>> =>
              /\ plast.page.object_list # <<>>
              /\ plast.page.object_list[Len(plast.page.object_list)] = Len(object_list)
        /\ ~has_next(strategy_page.page, strategy_page.paginator)

(***************************************************************************)
(* Properties of the schema called directly                                *)
(***************************************************************************)
\* the place of a declared name in the declaration order
DeclaredPlace(name) == CHOOSE i \in 1..Len(DeclaredOrder) : DeclaredOrder[i] = name

InDeclarationOrder(keys) ==
    \A i, j \in 1..Len(keys) : i < j => DeclaredPlace(keys[i]) < DeclaredPlace(keys[j])

\* C11: the keys of errors and of the validated data of run_validation, and
\* the keys of the result of to_representation, come in declaration order
\* (the base schema's fields first, then the schema's own by declaration),
\* whatever the order in which Meta.fields lists the names.
C11_DeclarationOrder ==
    /\ (olast.op = "run_validation" /\ olast.exc \in {"none", "ValidationError"}) =>
          /\ InDeclarationOrder(Keys(olast.ret))
          /\ InDeclarationOrder(Keys(olast.errors))
    /\ (olast.op = "to_representation" /\ olast.exc = "none") =>
          InDeclarationOrder(Keys(olast.ret))

\* C12: a to_representation that returns gives one entry for each bound
\* field, under the field's name: the attribute itself when it is falsy,
\* the field's to_representation of it when it is truthy.
C12_Representation ==
    (olast.op = "to_representation" /\ olast.exc = "none") =>
        LET names == fields[olast.self]
            entry(f) == {i \in 1..Len(olast.ret) : olast.ret[i][1] = fname[f]}
        IN  /\ Len(olast.ret) = Len(names)
            /\ \A j \in 1..Len(names) :
                  LET f == names[j]
                      attribute == get_attribute(f, olast.arg)
                  IN  /\ Cardinality(entry(f)) = 1
                      /\ \A i \in entry(f) :
                            olast.ret[i][2] =
                                IF Truthy(attribute) THEN to_representation(f, attribute).val
                                ELSE attribute

\* C12 witness: an object whose name is 0 and whose id is '7' was rendered
\* by a schema that exposes both: name came out as 0, id as 7
C12_Witness ==
    /\ olast.op = "to_representation"
    /\ olast.exc = "none"
    /\ {"id", "name"} \subseteq {fields[olast.self][i] : i \in 1..Len(fields[olast.self])}
    /\ DictGet(olast.arg.d, "name") = IntV(0)
    /\ DictGet(olast.arg.d, "id") = StrV(<<7>>)
    /\ AsDict(olast.ret)["name"] = IntV(0)
    /\ AsDict(olast.ret)["id"] = IntV(7)

\* the child's run_validation of item i of the list, run to its end
ItemOutcome(child, item) == run_validation_items(writable_fields[child], item, <<>>, <<>>)

\* C13: ListSerializer.run_validation over n items raises a ValidationError
\* with n entries when an item is invalid, entry i being item i's errors or
\* {} when item i is valid; it returns the n validated values, in order,
\* when no item is invalid.
C13_ListErrors ==
    olast.op = "list_run_validation" =>
        LET items == olast.arg
            child == olast.self
            invalid(i) == ItemOutcome(child, items[i]).errors # <<>>
        IN  IF \E i \in 1..Len(items) : invalid(i)
            THEN /\ olast.exc = "ValidationError"
                 /\ Len(olast.errors) = Len(items)
                 /\ \A i \in 1..Len(items) :
                       olast.errors[i] =
                           IF invalid(i) THEN AsDict(ItemOutcome(child, items[i]).errors)
                           ELSE EmptyDict
            ELSE /\ olast.exc = "none"
                 /\ Len(olast.ret) = Len(items)
                 /\ \A i \in 1..Len(items) :
                       /\ olast.ret[i].t = "OrderedDict"
                       /\ olast.ret[i].od = ItemOutcome(child, items[i]).ret

(***************************************************************************)
(* Properties of the fields called directly                                *)
(***************************************************************************)
\* C14: run_validation of an empty input fails with 'required' on a required
\* field that has no parent; on a field bound to a parent in partial mode
\* that has an instance it returns the instance's attribute of the field's
\* name, to_python and the validators left out.
C14_EmptyInput ==
    (flast.op = "run_validation" /\ ~Truthy(flast.arg)) =>
        /\ (_declared_fields[flast.field].required /\ flast.options.parent = NoParent) =>
              /\ flast.exc = "ValidationError"
              /\ flast.detail = "required"
        /\ (flast.options.parent # NoParent /\ flast.options.partial
                /\ ~flast.options.instance.isNone) =>
              /\ flast.exc = "none"
              /\ flast.val = DictGet(flast.options.instance.d, flast.options.name)

\* C14 witness: the IntegerField, bound in partial mode to a serializer that
\* has an instance, was given None and returned the instance's id
C14_Witness ==
    /\ flast.op = "run_validation"
    /\ flast.field = "id"
    /\ flast.arg = NoneV
    /\ flast.options.parent # NoParent
    /\ flast.options.partial
    /\ ~flast.options.instance.isNone
    /\ flast.exc = "none"
    /\ flast.val.t = "int"

\* C15: validating an input through a BooleanField gives what the TRUE_VALUES
\* / FALSE_VALUES parse gives: True for a member of TRUE_VALUES, False for a
\* member of FALSE_VALUES, the 'invalid' error for any other input, an
\* unhashable one included.
C15_BooleanParse ==
    flast.op = "BooleanField.run_validation" =>
        LET parsed == to_internal_value(flast.arg)
        IN  IF parsed.exc = "none"
            THEN flast.exc = "none" /\ PyEq(flast.val, parsed.val)
            ELSE flast.exc = "ValidationError" /\ flast.detail = "invalid"

\* C16: ChoiceField.to_python returns the input when it is a declared value
\* or the string form of one, whatever the labels; it returns '' when
\* allow_blank is set; for any other input it raises invalid_choice with the
\* input in the message.
C16_ChoiceAccepts ==
    flast.op = "ChoiceField.to_python" =>
        LET choices == flast.options[1]
            allow_blank == flast.options[2]
            declared == \E i \in 1..Len(choices) :
                            \/ PyEq(flast.arg, choices[i][1])
                            \/ PyEq(flast.arg, StrOf(choices[i][1]))
        IN  IF declared THEN flast.exc = "none" /\ flast.val = flast.arg
            ELSE IF flast.arg = StrV(<<>>) /\ allow_blank THEN flast.exc = "none"
            ELSE /\ flast.exc = "ValidationError"
                 /\ flast.detail = "invalid_choice"
                 /\ flast.val = flast.arg

(***************************************************************************)
(* Properties of the walk over the pages                                   *)
(***************************************************************************)
\* the slices of a walk, one after the other
RECURSIVE Concat(_)
Concat(slices) == IF slices = <<>> THEN <<>> ELSE Head(slices) \o Concat(Tail(slices))

\* the walk has returned page(1) .. page(num_pages)
WalkComplete == walk # <<>> /\ Len(walk) = _num_pages[1]

\* C17: the slices of page(1), page(2), ... of a fresh Paginator follow one
\* another from the first item without gap or overlap; every page but an
\* empty page 1 holds an item, every page before the last holds per_page
\* items, the last at most per_page + orphans; page(1) .. page(num_pages)
\* together hold every item once.
C17_PagesPartition ==
    /\ Concat(walk) = SubSeq(object_list, 1, Len(Concat(walk)))
    /\ \A i \in 1..Len(walk) :
          /\ (walk[i] = <<>>) => (i = 1 /\ object_list = <<>>)
          /\ i < _num_pages[1] => Len(walk[i]) = per_page
          /\ Len(walk[i]) <= per_page + orphans
    /\ WalkComplete => Concat(walk) = object_list
    /\ (walk = <<>> /\ plast.op = "page") =>
          (object_list = <<>> /\ ~allow_empty_first_page /\ plast.exc = "EmptyPage")

\* C17 witness: a walk over three pages or more, ended on a last page that
\* took in orphans
C17_Witness ==
    /\ WalkComplete
    /\ Len(walk) >= 3
    /\ Len(walk[Len(walk)]) > per_page
=============================================================================
